---------------------------- MODULE Spec2Model ----------------------------
(***************************************************************************)
(* Clock synchronisation by Cristian's algorithm: the two clients of the   *)
(* repository, ClockClient (src/client.py) and Client with its DriftClock  *)
(* (src/network.py), and the time authority (src/time_server.py).          *)
(*                                                                         *)
(* Time.  Every time value is an integer number of ticks of 5 microseconds *)
(* (Ms = 200 ticks).  The inputs are drawn from sets on which every        *)
(* division the code performs is exact in ticks, so the integer arithmetic *)
(* below is the real arithmetic of the code (floating-point rounding is    *)
(* not modelled).                                                          *)
(*                                                                         *)
(* Drift.  rho is rhoSign / rhoInv with rhoSign in {-1, 0, 1}.  A local    *)
(* clock value is kept multiplied by rhoInv ("scaled"), which makes        *)
(* elapsed * (1 + rho) = elapsed * (rhoInv + rhoSign) / rhoInv exact.      *)
(***************************************************************************)
EXTENDS Integers, Sequences, FiniteSets, TLC

VARIABLES
    variant,        \* "client": ClockClient of client.py; "network": Client of network.py
    rhoSign,        \* self.rho = rhoSign / rhoInv
    rhoInv,
    epsilon_max,    \* self.epsilon_max, ticks
    duration,       \* self.duration, ticks
    measured_rtt,   \* ClockClient.measured_rtt, ticks; NoRtt for None
    sync_interval,  \* the interval in force, ticks; NoInterval before it is computed
    pc,             \* the main thread's position
    now,            \* the reference clock: time.time() and time.monotonic(), ticks
    R_base,         \* the anchor's reference reading, ticks
    L_base,         \* the anchor's local time, scaled
    anchor_ver,     \* history: the number of the rebase that wrote each anchor field
    lock,           \* DriftClock.lock: "free" or the thread that holds it
    rd_pc,          \* the sampling thread's position in get_local_time
    rd,             \* the sampling thread's locals
    wr_pc,          \* the sync thread's position in the rebase
    wr_new,         \* the rebase's argument new_local_time, scaled
    real_start,     \* ClockClient.run real_start_time; Client.sync_thread start_time
    last_sync_local,\* ClockClient.run last_sync_local_time, scaled
    next_sync,      \* Client.sync_thread next_sync
    sync_count,     \* Client.sync_thread sync_count; for ClockClient, history: the
                    \* number of calls of request_time_sync
    current_time,   \* Client.sync_thread current_time
    actual_base,    \* Client.actual_time_base and actual_time_mono_base
    T0,             \* request_time_sync T0
    T1,             \* request_time_sync T1
    net,            \* the exchange in flight: what the relay will deliver, and when
    sync_result,    \* what the last request_time_sync returned: "none", "ok", "fail"
    caller,         \* where request_time_sync was called from: "initial", "loop"
    h,              \* history of the run, read by the properties only
    one_way,        \* the one-way delays the relay draws from, ticks
    last_read,      \* history: the reading get_local_time returned last
    srv_pc,         \* run_time_server's position
    attempt,        \* run_time_server attempt
    bound,          \* server_socket is bound and listening
    backlog,        \* connections made and not yet accepted, oldest first
    conns,          \* every connection: what its peer sent, what the server did
    conn,           \* run_time_server conn: the connection accepted; 0 for none
    at,             \* the position of each thread of a client process
    stop_event,     \* ClockClient.run stop_event
    running,        \* Client.running
    expired,        \* the reference clock has passed the start plus the duration
    interrupted,    \* history: an interrupt signal has been delivered
    log_buffer,     \* ClockClient.log_buffer
    entries,        \* each thread's local entries
    csv_rows,       \* the rows written to the sample sink
    csv_open,       \* the sample sink is open
    csv_lock,       \* ClockClient.csv_lock: "free" or the thread that holds it
    buffer_lock,    \* ClockClient.buffer_lock: "free" or the thread that holds it
    taken           \* history: the number of samples taken

configVars == <<variant, rhoSign, rhoInv, epsilon_max, duration, one_way>>
clockVars == <<now, R_base, L_base, anchor_ver, lock, rd_pc, rd, wr_pc, wr_new>>
threadVars == <<lock, rd_pc, rd, wr_pc, wr_new>>
schedVars == <<real_start, last_sync_local, next_sync, sync_count, current_time>>
syncVars == <<T0, T1, net, sync_result, caller>>
runVars == <<real_start, last_sync_local, next_sync, sync_count, current_time,
             actual_base, T0, T1, net, sync_result, caller, h>>
serverVars == <<srv_pc, attempt, bound, backlog, conns, conn>>
\* everything of the client processes but the reference clock
clientVars == <<variant, rhoSign, rhoInv, epsilon_max, duration, one_way, measured_rtt,
                sync_interval, pc, R_base, L_base, anchor_ver, lock, rd_pc, rd, wr_pc,
                wr_new, last_read, real_start, last_sync_local, next_sync, sync_count,
                current_time, actual_base, T0, T1, net, sync_result, caller, h,
                at, stop_event, running, expired, interrupted, log_buffer, entries,
                csv_rows, csv_open, csv_lock, buffer_lock, taken>>
\* everything but the threads of a client process and its sample sink
schedulerVars == <<variant, rhoSign, rhoInv, epsilon_max, duration, one_way, measured_rtt,
                   sync_interval, pc, now, R_base, L_base, anchor_ver, lock, rd_pc, rd,
                   wr_pc, wr_new, last_read, real_start, last_sync_local, next_sync,
                   sync_count, current_time, actual_base, T0, T1, net, sync_result,
                   caller, h, srv_pc, attempt, bound, backlog, conns, conn>>
stopVars == <<at, stop_event, running, expired, interrupted, log_buffer, entries,
              csv_rows, csv_open, csv_lock, buffer_lock, taken>>
envVars == <<serverVars, stopVars>>
vars == <<variant, rhoSign, rhoInv, epsilon_max, duration, measured_rtt,
          sync_interval, pc, now, R_base, L_base, anchor_ver, lock, rd_pc, rd,
          wr_pc, wr_new, real_start, last_sync_local, next_sync, sync_count,
          current_time, actual_base, T0, T1, net, sync_result, caller, h,
          one_way, last_read, srv_pc, attempt, bound, backlog, conns, conn,
          at, stop_event, running, expired, interrupted, log_buffer, entries,
          csv_rows, csv_open, csv_lock, buffer_lock, taken>>

---------------------------------------------------------------------------
(* Units *)
Ms == 2 * 100
Second == 1000 * Ms

Abs(x) == IF x < 0 THEN -x ELSE x
Max(a, b) == IF a >= b THEN a ELSE b
Min(a, b) == IF a <= b THEN a ELSE b

NoRtt == 0 - 1
NoInterval == 0 - 1

Variants == {"client", "network"}

---------------------------------------------------------------------------
(* Program constants *)

\* the relay's one-way delay bounds, 0.1 ms and 0.5 ms (client.py:120)
MinDelay == Ms \div 10
MaxDelay == Ms \div 2
OneWayDelays == {MinDelay, MaxDelay}
\* a relay that adds no delay
NoDelay == {0}

\* client.py:121  max_network_delay = 0.001 when no RTT has been measured
DEFAULT_MAX_NETWORK_DELAY == Ms
\* client.py:138 and client.py:149  the 0.1 s floor of the interval
CLIENT_MIN_INTERVAL == Second \div 10
\* network.py:80  the fixed cadence of a driftless clock
NETWORK_NODRIFT_INTERVAL == 5 * Second
\* network.py:86
NETWORK_MIN_INTERVAL == Second \div 2
\* network.py:87  max_interval = max(10.0, self.duration / 2)
NetworkMaxInterval(dur) == Max(10 * Second, dur \div 2)

---------------------------------------------------------------------------
(* The drifting clock: ClockClient.get_local_time / update_local_clock     *)
(* (client.py:52-61) and DriftClock (network.py:12-36).  time.time() and   *)
(* time.monotonic() differ by a constant that cancels in every difference  *)
(* the code takes; both are read as now.                                   *)

\* a clock that stands still between rebases
LocalTimeFrozen(lb, rb, r_t) == lb

\* a clock that forgets the anchor's reference reading
LocalTimeFromZero(lb, rb, r_t) == lb + r_t * (rhoInv + rhoSign)

\* a clock that advances by the drift alone: rho instead of 1 + rho
LocalTimeDriftOnly(lb, rb, r_t) == lb + (r_t - rb) * rhoSign

\* client.py:55, network.py:26-27  L_base + (R_t - R_base) * (1 + rho), scaled
LocalTime(lb, rb, r_t) == lb + (r_t - rb) * (rhoInv + rhoSign)

NoRead == [R_t |-> 0, L |-> 0, R |-> 0, Lver |-> 0, Rver |-> 0, result |-> 0]
\* no reading has been returned yet
NoReading == [valid |-> FALSE, Lver |-> 0, Rver |-> 0, result |-> 0]

\* client.py:17-18, network.py:16-18  the clock after construction at time t
ClockConstructed(t) ==
    /\ now = t
    /\ R_base = t
    /\ L_base = t * rhoInv
    /\ anchor_ver = [R |-> 0, L |-> 0]
    /\ lock = "free"
    /\ rd_pc = "idle"
    /\ rd = NoRead
    /\ last_read = NoReading
    /\ wr_pc = "idle"
    /\ wr_new = 0

---------------------------------------------------------------------------
(* The time authority before run_time_server is called (time_server.py) *)

\* connections modelled
MaxConns == 3
Conns == 1 .. MaxConns

\* a connection nobody has made yet
NoConn == [state |-> "none", payload |-> "nothing", peer_open |-> FALSE,
           read |-> FALSE, responses |-> 0, resp_time |-> 0, handled_at |-> 0,
           send_failed |-> FALSE]

ServerNotStarted ==
    /\ srv_pc = "off"
    /\ attempt = 0
    /\ bound = FALSE
    /\ backlog = << >>
    /\ conns = [c \in Conns |-> NoConn]
    /\ conn = 0

---------------------------------------------------------------------------
(* The threads of a client process before run() is called *)

Threads == {"main", "logger", "flusher", "sync"}

\* client.py:24-45: the sink is opened by the constructor;  network.py:135: by
\* the logging thread
ThreadsNotStarted ==
    /\ at = [t \in Threads |-> IF t = "main" THEN "run" ELSE "none"]
    /\ stop_event = FALSE
    /\ running = TRUE
    /\ expired = FALSE
    /\ interrupted = FALSE
    /\ log_buffer = << >>
    /\ entries = [t \in Threads |-> << >>]
    /\ csv_rows = << >>
    /\ csv_open = (variant = "client")
    /\ csv_lock = "free"
    /\ buffer_lock = "free"
    /\ taken = 0

---------------------------------------------------------------------------
(* The state of a run before run() is called *)

NoExchange == [kind |-> "none", server_time |-> 0, arrive |-> 0]

NoHistory ==
    [sent_at |-> 0, recv_at |-> 0, srv |-> 0,   \* the last exchange, as it happened
     pre_R |-> 0, pre_L |-> 0,                  \* the anchor when the attempt began
     outcome |-> "none",                        \* what the network did to the attempt
     successes |-> 0, failures |-> 0,
     fails_since |-> 0,        \* failed attempts since the last successful one
     has_anchor |-> FALSE,     \* a scheduled-from point exists
     anchor |-> 0,             \* the scheduler's clock at the last successful sync
     has_prev |-> FALSE,       \* the loop has checked the schedule since the last attempt
     prev |-> 0,               \* the scheduler's clock at its previous check
     blocked |-> 0]            \* waits spent in a recv that has not returned

RunNotStarted ==
    /\ real_start = 0
    /\ last_sync_local = 0
    /\ next_sync = 0
    /\ sync_count = 0
    /\ current_time = 0
    /\ actual_base = [time |-> now, mono |-> now]
    /\ T0 = 0
    /\ T1 = 0
    /\ net = NoExchange
    /\ sync_result = "none"
    /\ caller = "none"
    /\ h = NoHistory

---------------------------------------------------------------------------
(* calculate_sync_interval *)

\* client.py:116-124  network_error = max_network_delay / 2, where
\* max_network_delay is 1.5 * measured_rtt, or 1 ms before any measurement
NetworkError(rtt) ==
    IF rtt # NoRtt THEN (rtt * 3) \div 4
    ELSE DEFAULT_MAX_NETWORK_DELAY \div 2

\* client.py:141-146  raw_interval = available_error / |rho|, times 0.8
ClientRawInterval(inv, available_error) == ((available_error * inv) * 4) \div 5

\* ClockClient.calculate_sync_interval with the network error added to the
\* budget instead of taken from it
ClientCalcSyncIntervalAddsError(sgn, inv, eps, dur, rtt) ==
    LET available_error == eps + NetworkError(rtt)
    IN  IF sgn = 0 THEN dur
        ELSE Max(CLIENT_MIN_INTERVAL, Min(ClientRawInterval(inv, available_error), dur))

\* ClockClient.calculate_sync_interval without its driftless case: a clock
\* with no drift gets the floor
ClientCalcSyncIntervalNoDriftless(sgn, inv, eps, dur, rtt) ==
    LET available_error == eps - NetworkError(rtt)
        unclamped == IF available_error <= 0 \/ sgn = 0 THEN CLIENT_MIN_INTERVAL
                     ELSE ClientRawInterval(inv, available_error)
    IN  Max(CLIENT_MIN_INTERVAL, Min(unclamped, dur))

\* client.py:109-152  ClockClient.calculate_sync_interval
ClientCalcSyncInterval(sgn, inv, eps, dur, rtt) ==
    LET network_error == NetworkError(rtt)
        available_error == eps - network_error
    IN  IF sgn = 0 THEN dur
        ELSE LET unclamped == IF available_error <= 0 THEN CLIENT_MIN_INTERVAL
                              ELSE ClientRawInterval(inv, available_error)
             IN  Max(CLIENT_MIN_INTERVAL, Min(unclamped, dur))

\* network.py:67-91  Client.calculate_sync_interval
NetworkCalcSyncInterval(sgn, inv, eps, dur) ==
    IF sgn = 0 THEN NETWORK_NODRIFT_INTERVAL
    ELSE LET unclamped == (eps * inv) \div 2
         IN  Max(NETWORK_MIN_INTERVAL, Min(unclamped, NetworkMaxInterval(dur)))

calculate_sync_interval(v, sgn, inv, eps, dur, rtt) ==
    IF v = "client" THEN ClientCalcSyncInterval(sgn, inv, eps, dur, rtt)
    ELSE NetworkCalcSyncInterval(sgn, inv, eps, dur)

---------------------------------------------------------------------------
(* The inputs of calculate_sync_interval *)

RhoInvs == {2, 10, 1000}
\* 0.2 ms .. 1 s; 0.5 ms is the network error of an unmeasured link
Epsilons == {(2 * Ms) \div 10, (5 * Ms) \div 10, (6 * Ms) \div 10, (8 * Ms) \div 10,
             Ms, 10 * Ms, 50 * Ms, Second \div 2, Second}
\* 0.1 s (the floor of ClockClient) .. 30 s
Durations == {Second \div 10, (3 * Second) \div 10, Second, 3 * Second,
              10 * Second, 30 * Second}
\* round trips of two one-way delays of 0.1 ms .. 0.5 ms, and a slow one of 2 ms
MeasuredRtts == {NoRtt, (2 * Ms) \div 10, (6 * Ms) \div 10, Ms, 2 * Ms}

IntervalInit ==
    /\ variant \in Variants
    /\ rhoSign \in {0 - 1, 0, 1}
    /\ rhoInv \in RhoInvs
    /\ (rhoSign = 0 => rhoInv = 2)
    /\ epsilon_max \in Epsilons
    /\ duration \in Durations
    /\ measured_rtt \in (IF variant = "client" THEN MeasuredRtts ELSE {NoRtt})
    /\ sync_interval = NoInterval
    /\ one_way = OneWayDelays
    /\ pc = "calc"
    /\ ClockConstructed(0)
    /\ RunNotStarted
    /\ ServerNotStarted
    /\ ThreadsNotStarted

\* one call of calculate_sync_interval on the object's fields
Calculate ==
    /\ pc = "calc"
    /\ sync_interval' = calculate_sync_interval(variant, rhoSign, rhoInv,
                                                epsilon_max, duration, measured_rtt)
    /\ pc' = "calculated"
    /\ UNCHANGED <<configVars, envVars, last_read, measured_rtt, clockVars, runVars>>

IntervalNext == Calculate

SpecInterval == IntervalInit /\ [][IntervalNext]_vars

---------------------------------------------------------------------------
(* The clock under a sampling thread and a sync thread: SpecClock.  Each   *)
(* action is one access of a field of the clock object, the grain at which *)
(* two Python threads interleave.                                          *)

MaxNow == 3
MaxRebases == 2
\* what a rebase may set the clock to, relative to the reference time
RebaseOffsets == {0 - 1, 0, 1}

ClockInit ==
    /\ variant \in Variants
    /\ rhoSign \in {0 - 1, 0, 1}
    /\ rhoInv = 2
    /\ epsilon_max = Second
    /\ duration = Second
    /\ measured_rtt = NoRtt
    /\ sync_interval = NoInterval
    /\ one_way = OneWayDelays
    /\ pc = "clock"
    /\ ClockConstructed(0)
    /\ RunNotStarted
    /\ ServerNotStarted
    /\ ThreadsNotStarted

\* the reference clock advances
ClockTick ==
    /\ pc = "clock"
    /\ now < MaxNow
    /\ now' = now + 1
    /\ UNCHANGED <<runVars, configVars, envVars, last_read, measured_rtt, sync_interval, pc, R_base, L_base,
                   anchor_ver, lock, rd_pc, rd, wr_pc, wr_new>>

\* network.py:24, network.py:32  with self.lock (ClockClient has no lock)
Acquire(thread) ==
    IF variant = "network" THEN lock = "free" /\ lock' = thread
    ELSE UNCHANGED lock

\* network.py:28, network.py:36  leaving the with block
Release ==
    IF variant = "network" THEN lock' = "free" ELSE UNCHANGED lock

\* client.py:54  R_t = time.time();  network.py:24-25  with self.lock: R_t = ...
ReadTime ==
    /\ pc = "clock"
    /\ rd_pc = "idle"
    /\ Acquire("reader")
    /\ rd' = [NoRead EXCEPT !.R_t = now]
    /\ rd_pc' = "timed"
    /\ UNCHANGED <<runVars, configVars, envVars, last_read, measured_rtt, sync_interval, pc, now, R_base, L_base,
                   anchor_ver, wr_pc, wr_new>>

\* client.py:55 loads self.L_base first, network.py:26 loads self.R_base first
ReadFirst ==
    /\ pc = "clock"
    /\ rd_pc = "timed"
    /\ rd' = IF variant = "client"
             THEN [rd EXCEPT !.L = L_base, !.Lver = anchor_ver.L]
             ELSE [rd EXCEPT !.R = R_base, !.Rver = anchor_ver.R]
    /\ rd_pc' = "half"
    /\ UNCHANGED <<runVars, configVars, envVars, last_read, measured_rtt, sync_interval, pc, now, R_base, L_base,
                   anchor_ver, lock, wr_pc, wr_new>>

\* client.py:55-56, network.py:27-28  the other field, the result, the return
ReadSecond ==
    /\ pc = "clock"
    /\ rd_pc = "half"
    /\ LET r == IF variant = "client"
                THEN [rd EXCEPT !.R = R_base, !.Rver = anchor_ver.R]
                ELSE [rd EXCEPT !.L = L_base, !.Lver = anchor_ver.L]
       IN  rd' = [r EXCEPT !.result = LocalTime(r.L, r.R, r.R_t)]
    /\ Release
    /\ rd_pc' = "done"
    /\ UNCHANGED <<runVars, configVars, envVars, last_read, measured_rtt, sync_interval, pc, now, R_base, L_base,
                   anchor_ver, wr_pc, wr_new>>

\* the caller takes the value; the next sample starts from here
ReadReturn ==
    /\ pc = "clock"
    /\ rd_pc = "done"
    /\ rd_pc' = "idle"
    /\ rd' = NoRead
    /\ last_read' = [valid |-> TRUE, Lver |-> rd.Lver, Rver |-> rd.Rver,
                      result |-> rd.result]
    /\ UNCHANGED <<runVars, configVars, envVars, measured_rtt, sync_interval, pc, now, R_base, L_base,
                   anchor_ver, lock, wr_pc, wr_new>>

\* client.py:60  self.R_base = time.time();  network.py:32-34  self.L_base = new
RebaseFirst ==
    /\ pc = "clock"
    /\ wr_pc = "idle"
    /\ anchor_ver.R < MaxRebases
    /\ Acquire("writer")
    /\ \E off \in RebaseOffsets :
          LET new_local_time == (now + off) * rhoInv
          IN  /\ wr_new' = new_local_time
              /\ IF variant = "client"
                 THEN /\ R_base' = now
                      /\ anchor_ver' = [anchor_ver EXCEPT !.R = @ + 1]
                      /\ UNCHANGED L_base
                 ELSE /\ L_base' = new_local_time
                      /\ anchor_ver' = [anchor_ver EXCEPT !.L = @ + 1]
                      /\ UNCHANGED R_base
    /\ wr_pc' = "half"
    /\ UNCHANGED <<runVars, configVars, envVars, last_read, measured_rtt, sync_interval, pc, now, rd_pc, rd>>

\* client.py:61  self.L_base = new_local_time;  network.py:35  self.R_base = ...
RebaseSecond ==
    /\ pc = "clock"
    /\ wr_pc = "half"
    /\ IF variant = "client"
       THEN /\ L_base' = wr_new
            /\ anchor_ver' = [anchor_ver EXCEPT !.L = @ + 1]
            /\ UNCHANGED R_base
       ELSE /\ R_base' = now
            /\ anchor_ver' = [anchor_ver EXCEPT !.R = @ + 1]
            /\ UNCHANGED L_base
    /\ Release
    /\ wr_pc' = "idle"
    /\ UNCHANGED <<runVars, configVars, envVars, last_read, measured_rtt, sync_interval, pc, now, rd_pc, rd, wr_new>>

ClockNext ==
    \/ ClockTick
    \/ ReadTime \/ ReadFirst \/ ReadSecond \/ ReadReturn
    \/ RebaseFirst \/ RebaseSecond

SpecClock == ClockInit /\ [][ClockNext]_vars

\* C2: under every interleaving of a rebase with a read, the read computes
\* local time from the two anchor fields of one and the same rebase, never
\* from a new one combined with a stale one.
C2_NoTornAnchorRead == rd_pc = "done" => rd.Lver = rd.Rver


\* the reading in hand was computed from the anchor the last completed rebase
\* left, at the reference time that rebase recorded
ReadAtRebase ==
    /\ rd_pc = "done"
    /\ wr_pc = "idle"
    /\ anchor_ver.R >= 1
    /\ rd.Lver = anchor_ver.L
    /\ rd.Rver = anchor_ver.R
    /\ rd.R_t = R_base

\* C16: now() called after rebase(x) with no reference time elapsed since the
\* rebase returns x.
C16_NowAfterRebase == ReadAtRebase => rd.result = wr_new

C16_Witness == ReadAtRebase /\ now > 0 /\ rhoSign # 0 /\ rd.result = wr_new

\* two successive readings with no write of a rebase between them: both
\* were computed from the same anchor fields
SuccessiveReadings ==
    /\ rd_pc = "done"
    /\ last_read.valid
    /\ rd.Lver = last_read.Lver
    /\ rd.Rver = last_read.Rver

\* C17: for rho > -1, of two successive readings with no rebase between
\* them the later is greater than or equal to the earlier.
C17_ReadingsOrdered ==
    (SuccessiveReadings /\ rhoInv + rhoSign > 0) => rd.result >= last_read.result

C17_Witness ==
    SuccessiveReadings /\ rhoSign < 0 /\ rhoInv + rhoSign > 0
        /\ rd.result > last_read.result
---------------------------------------------------------------------------
(* Properties of calculate_sync_interval, under SpecInterval *)

\* The network uncertainty u of the interval in force: the network_error
\* ClockClient computes; Client takes none, and the worst one-way delay of
\* client.py:120 stands for it.
Uncertainty == IF variant = "client" THEN NetworkError(measured_rtt) ELSE NetworkError(NoRtt)

\* |rho| * interval + u <= epsilon_max, multiplied by rhoInv
WithinBudget(interval, u) == Abs(rhoSign) * interval + u * rhoInv <= epsilon_max * rhoInv

MinInterval == IF variant = "client" THEN CLIENT_MIN_INTERVAL ELSE NETWORK_MIN_INTERVAL

\* C1 as stated: for every rho, every epsilon_max > 0 and the uncertainty u,
\* the interval keeps |rho| * interval + u <= epsilon_max when epsilon_max > u,
\* and is the minimum interval when epsilon_max <= u.
C1_BudgetForEveryInput ==
    pc = "calculated" =>
        /\ epsilon_max > Uncertainty => WithinBudget(sync_interval, Uncertainty)
        /\ epsilon_max <= Uncertainty => sync_interval = MinInterval

\* C1 amended: ClockClient with a drift that is not negligible keeps
\* |rho| * interval + u <= epsilon_max when epsilon_max > u and the floor of
\* 0.1 s does not raise the interval (0.8 * (epsilon_max - u) / |rho| >= 0.1 s),
\* and returns the floor when epsilon_max <= u.  Client, which takes no u,
\* keeps |rho| * interval <= epsilon_max / 2 when its floor of 0.5 s does not
\* raise the interval (epsilon_max / (2 |rho|) >= 0.5 s).
C1_BudgetUnlessFloored ==
    (pc = "calculated" /\ rhoSign # 0) =>
        IF variant = "client"
        THEN /\ (/\ epsilon_max > Uncertainty
                 /\ 4 * (epsilon_max - Uncertainty) * rhoInv >= 5 * CLIENT_MIN_INTERVAL)
                    => WithinBudget(sync_interval, Uncertainty)
             /\ epsilon_max <= Uncertainty => sync_interval = CLIENT_MIN_INTERVAL
        ELSE epsilon_max * rhoInv >= 2 * NETWORK_MIN_INTERVAL
                 => 2 * sync_interval <= epsilon_max * rhoInv

\* C1 witness: ClockClient returned an interval that its formula, not a clamp,
\* decided, for a budget above the uncertainty.
C1_Witness ==
    /\ pc = "calculated" /\ variant = "client" /\ rhoSign # 0
    /\ epsilon_max > Uncertainty
    /\ sync_interval > CLIENT_MIN_INTERVAL /\ sync_interval < duration

\* C8 as stated: for every input the interval lies in
\* [min_interval, min(max_interval, duration)]; ClockClient has no max_interval.
C8_IntervalWithinClamp ==
    pc = "calculated" =>
        /\ sync_interval >= MinInterval
        /\ sync_interval <= duration
        /\ variant = "network" => sync_interval <= NetworkMaxInterval(duration)

---------------------------------------------------------------------------
(* A run of the scheduler: ClockClient.run (client.py:268-335) and         *)
(* Client.sync_thread (network.py:159-184), each with request_time_sync.   *)
(* Time passes in time.sleep and while the thread is blocked in recv; the  *)
(* statements between take no time.  The relay and the time authority are  *)
(* the environment: an exchange is delayed one way by d1, stamped by the   *)
(* authority, and delayed the other way by d2; or it fails.                *)

\* client.py:320  time.sleep(0.1)
CLIENT_POLL == Second \div 10
\* network.py:182  time.sleep(min(0.1, ...))
NETWORK_POLL == Second \div 10
\* client.py:316  abs(new_interval - sync_interval) > 0.1
ADJUST_THRESHOLD == Second \div 10

\* how long a failing exchange keeps recv waiting: a relay that drops the
\* request at once, and one that gives up on the authority after 50 ms
FailureDelays == {MinDelay, 50 * Ms}
\* failed attempts modelled per run
MaxFailures == 2
\* waits modelled in a recv that is never answered, each of BlockStep
MaxBlocked == 3
BlockStep == Second \div 2

\* the runs modelled: (rho, epsilon_max, duration)
RunConfigs ==
    { [sign |-> 0,     inv |-> 2,  eps |-> Second,      dur |-> 10 * Second],
      [sign |-> 1,     inv |-> 10, eps |-> 50 * Ms,     dur |-> Second],
      [sign |-> 0 - 1, inv |-> 2,  eps |-> Second \div 2, dur |-> 2 * Second] }

\* client.py:11-33;  network.py:39-54, where __init__ computes the interval
RunInit ==
    /\ variant \in Variants
    /\ \E c \in RunConfigs :
          /\ rhoSign = c.sign
          /\ rhoInv = c.inv
          /\ epsilon_max = c.eps
          /\ duration = c.dur
    /\ one_way \in (IF rhoSign = 0 THEN {OneWayDelays, NoDelay} ELSE {OneWayDelays})
    /\ measured_rtt = NoRtt
    /\ sync_interval = IF variant = "network"
                       THEN NetworkCalcSyncInterval(rhoSign, rhoInv, epsilon_max, duration)
                       ELSE NoInterval
    /\ pc = "run"
    /\ ClockConstructed(0)
    /\ RunNotStarted
    /\ ServerNotStarted
    /\ ThreadsNotStarted

\* client.py:289-293  real_start_time = time.time(), the initial synchronisation;
\* network.py:161-162
RunStart ==
    /\ pc = "run"
    /\ real_start' = IF variant = "client" THEN now ELSE real_start
    /\ caller' = "initial"
    /\ pc' = "request"
    /\ UNCHANGED <<configVars, envVars, last_read, measured_rtt, sync_interval, clockVars, last_sync_local,
                   next_sync, sync_count, current_time, actual_base, T0, T1, net,
                   sync_result, h>>

Attempted(kind) ==
    [h EXCEPT !.sent_at = now, !.pre_R = R_base, !.pre_L = L_base, !.outcome = kind,
              !.blocked = 0]

Failed(hh) == [hh EXCEPT !.failures = @ + 1, !.fails_since = @ + 1]

\* client.py:65-78, network.py:95-108  T0, connect, sendall, and recv entered.
\* connect raises when the relay is down; otherwise the request is on its way.
SyncSend ==
    /\ pc = "request"
    /\ T0' = now
    /\ sync_count' = IF variant = "client" THEN sync_count + 1 ELSE sync_count
    /\ \/ /\ h.failures < MaxFailures
          /\ net' = NoExchange
          /\ sync_result' = "fail"
          /\ h' = Failed(Attempted("refused"))
          /\ pc' = "returned"
       \/ /\ \E d1 \in one_way, d2 \in one_way :
                net' = [kind |-> "ok", server_time |-> now + d1, arrive |-> now + d1 + d2]
          /\ h' = Attempted("ok")
          /\ pc' = "recv"
          /\ UNCHANGED sync_result
       \/ /\ h.failures < MaxFailures
          /\ \E d \in FailureDelays :
                net' = [kind |-> "malformed", server_time |-> 0, arrive |-> now + d]
          /\ h' = Attempted("malformed")
          /\ pc' = "recv"
          /\ UNCHANGED sync_result
       \/ /\ net' = [kind |-> "silent", server_time |-> 0, arrive |-> 0]
          /\ h' = Attempted("silent")
          /\ pc' = "recv"
          /\ UNCHANGED sync_result
    /\ UNCHANGED <<configVars, envVars, last_read, measured_rtt, sync_interval, clockVars, real_start,
                   last_sync_local, next_sync, current_time, actual_base, T1, caller>>

\* client.py:78-83, network.py:108-111  recv returns what the relay sent, T1
SyncRecv ==
    /\ pc = "recv"
    /\ net.kind \in {"ok", "malformed"}
    /\ now' = net.arrive
    /\ T1' = net.arrive
    /\ h' = [h EXCEPT !.recv_at = net.arrive]
    /\ pc' = "parse"
    /\ UNCHANGED <<configVars, envVars, last_read, measured_rtt, sync_interval, R_base, L_base, anchor_ver,
                   threadVars, schedVars, actual_base, T0, net, sync_result, caller>>

\* client.py:78, network.py:108  recv on a socket with no timeout: the relay
\* holds the connection and sends nothing
SyncBlocked ==
    /\ pc = "recv"
    /\ net.kind = "silent"
    /\ h.blocked < MaxBlocked
    /\ now' = now + BlockStep
    /\ h' = [h EXCEPT !.blocked = @ + 1]
    /\ UNCHANGED <<configVars, envVars, last_read, measured_rtt, sync_interval, pc, R_base, L_base,
                   anchor_ver, threadVars, schedVars, actual_base, T0, T1, net,
                   sync_result, caller>>

\* a parse that takes whatever recv returned for a response
ParsesAnything(kind) == TRUE

\* client.py:86-87, network.py:114-115  json.loads and ['server_time'] succeed
Parses(kind) == kind = "ok"

\* the estimate without the round trip: the authority's stamp as it is
EstimatedTimeNoRtt(server_time, t0, t1) == server_time

\* the estimate with the whole round trip added
EstimatedTimeWholeRtt(server_time, t0, t1) == server_time + (t1 - t0)

\* client.py:92-93, network.py:118-119  server_time + RTT / 2
EstimatedTime(server_time, t0, t1) == server_time + (t1 - t0) \div 2

\* client.py:85-107, network.py:113-131  parse, estimate, rebase; or the except
SyncApply ==
    /\ pc = "parse"
    /\ IF Parses(net.kind)
       THEN LET RTT == T1 - T0
                estimated_time == EstimatedTime(net.server_time, T0, T1)
            IN  /\ measured_rtt' = IF variant = "client" THEN RTT ELSE measured_rtt
                /\ R_base' = now
                /\ L_base' = estimated_time * rhoInv
                /\ anchor_ver' = [R |-> anchor_ver.R + 1, L |-> anchor_ver.L + 1]
                /\ actual_base' = IF variant = "network"
                                  THEN [time |-> estimated_time, mono |-> now]
                                  ELSE actual_base
                /\ sync_result' = "ok"
                /\ h' = [h EXCEPT !.srv = net.server_time, !.successes = @ + 1]
       ELSE /\ sync_result' = "fail"
            /\ h' = Failed(h)
            /\ UNCHANGED <<measured_rtt, R_base, L_base, anchor_ver, actual_base>>
    /\ net' = NoExchange
    /\ pc' = "returned"
    /\ UNCHANGED <<configVars, envVars, last_read, sync_interval, now, threadVars, schedVars, T0, T1, caller>>

\* history: the attempt has returned and the scheduler's clock reads `reading`
Scheduled(reading) ==
    IF sync_result = "ok"
    THEN [h EXCEPT !.has_anchor = TRUE, !.anchor = reading, !.fails_since = 0,
                   !.has_prev = FALSE]
    ELSE [h EXCEPT !.has_prev = FALSE]

\* client.py:296-299  the interval, and last_sync_local_time
ClientAfterInitialSync ==
    /\ variant = "client"
    /\ pc = "returned"
    /\ caller = "initial"
    /\ sync_interval' = ClientCalcSyncInterval(rhoSign, rhoInv, epsilon_max, duration,
                                               measured_rtt)
    /\ last_sync_local' = LocalTime(L_base, R_base, now)
    /\ h' = Scheduled(LocalTime(L_base, R_base, now))
    /\ pc' = "loop"
    /\ UNCHANGED <<configVars, envVars, last_read, measured_rtt, clockVars, real_start, next_sync, sync_count,
                   current_time, actual_base, syncVars>>

\* client.py:309  current_local_time - last_sync_local_time >= sync_interval
ClientDue == LocalTime(L_base, R_base, now) - last_sync_local >= sync_interval * rhoInv

\* client.py:304-311  an iteration that finds a synchronisation due
ClientLoopSync ==
    /\ variant = "client"
    /\ pc = "loop"
    /\ now - real_start < duration
    /\ ClientDue
    /\ caller' = "loop"
    /\ pc' = "request"
    /\ UNCHANGED <<configVars, envVars, last_read, measured_rtt, sync_interval, clockVars, schedVars,
                   actual_base, T0, T1, net, sync_result, h>>

\* client.py:304-309, 320  an iteration that finds none due, and sleeps
ClientLoopSleep ==
    /\ variant = "client"
    /\ pc = "loop"
    /\ now - real_start < duration
    /\ ~ClientDue
    /\ now' = now + CLIENT_POLL
    /\ h' = [h EXCEPT !.has_prev = TRUE, !.prev = LocalTime(L_base, R_base, now)]
    /\ UNCHANGED <<configVars, envVars, last_read, measured_rtt, sync_interval, pc, R_base, L_base,
                   anchor_ver, threadVars, schedVars, actual_base, syncVars>>

\* client.py:312-320  after the call: last_sync_local_time, the interval
\* recomputed and taken if it moved by more than 0.1 s, the sleep
ClientAfterLoopSync ==
    /\ variant = "client"
    /\ pc = "returned"
    /\ caller = "loop"
    /\ last_sync_local' = LocalTime(L_base, R_base, now)
    /\ LET new_interval == ClientCalcSyncInterval(rhoSign, rhoInv, epsilon_max,
                                                  duration, measured_rtt)
       IN  sync_interval' = IF Abs(new_interval - sync_interval) > ADJUST_THRESHOLD
                            THEN new_interval ELSE sync_interval
    /\ h' = Scheduled(LocalTime(L_base, R_base, now))
    /\ now' = now + CLIENT_POLL
    /\ pc' = "loop"
    /\ UNCHANGED <<configVars, envVars, last_read, measured_rtt, R_base, L_base, anchor_ver, threadVars,
                   real_start, next_sync, sync_count, current_time, actual_base,
                   syncVars>>

\* client.py:304, 322-335  the duration is over
ClientLoopExit ==
    /\ variant = "client"
    /\ pc = "loop"
    /\ now - real_start >= duration
    /\ pc' = "done"
    /\ UNCHANGED <<configVars, envVars, last_read, measured_rtt, sync_interval, clockVars, runVars>>

\* network.py:163-166  sync_count, start_time, next_sync
NetworkAfterInitialSync ==
    /\ variant = "network"
    /\ pc = "returned"
    /\ caller = "initial"
    /\ sync_count' = 1
    /\ real_start' = now
    /\ next_sync' = now + sync_interval
    /\ h' = Scheduled(now)
    /\ pc' = "loop"
    /\ UNCHANGED <<configVars, envVars, last_read, measured_rtt, sync_interval, clockVars, last_sync_local,
                   current_time, actual_base, syncVars>>

\* network.py:168-178  an iteration that finds a synchronisation due
NetworkLoopSync ==
    /\ variant = "network"
    /\ pc = "loop"
    /\ now - real_start < duration
    /\ now >= next_sync
    /\ current_time' = now
    /\ sync_count' = sync_count + 1
    /\ caller' = "loop"
    /\ pc' = "request"
    /\ UNCHANGED <<configVars, envVars, last_read, measured_rtt, sync_interval, clockVars, real_start,
                   last_sync_local, next_sync, actual_base, T0, T1, net, sync_result, h>>

\* network.py:182  time.sleep(min(0.1, max(0, next_sync - current_time)))
NetworkSleep(next, current) == Min(NETWORK_POLL, Max(0, next - current))

\* network.py:168-175, 182  an iteration that finds none due, and sleeps
NetworkLoopSleep ==
    /\ variant = "network"
    /\ pc = "loop"
    /\ now - real_start < duration
    /\ now < next_sync
    /\ current_time' = now
    /\ now' = now + NetworkSleep(next_sync, now)
    /\ h' = [h EXCEPT !.has_prev = TRUE, !.prev = now]
    /\ UNCHANGED <<configVars, envVars, last_read, measured_rtt, sync_interval, pc, R_base, L_base,
                   anchor_ver, threadVars, real_start, last_sync_local, next_sync,
                   sync_count, actual_base, syncVars>>

\* network.py:178-182  after the call: the next slot of the schedule, the sleep
NetworkAfterLoopSync ==
    /\ variant = "network"
    /\ pc = "returned"
    /\ caller = "loop"
    /\ next_sync' = real_start + sync_count * sync_interval
    /\ h' = Scheduled(next_sync)
    /\ now' = now + NetworkSleep(real_start + sync_count * sync_interval, current_time)
    /\ pc' = "loop"
    /\ UNCHANGED <<configVars, envVars, last_read, measured_rtt, sync_interval, R_base, L_base, anchor_ver,
                   threadVars, real_start, last_sync_local, sync_count, current_time,
                   actual_base, syncVars>>

\* network.py:171-173, 184  the duration is over
NetworkLoopExit ==
    /\ variant = "network"
    /\ pc = "loop"
    /\ now - real_start >= duration
    /\ pc' = "done"
    /\ UNCHANGED <<configVars, envVars, last_read, measured_rtt, sync_interval, clockVars, runVars>>

RunNext ==
    \/ RunStart
    \/ SyncSend \/ SyncRecv \/ SyncBlocked \/ SyncApply
    \/ ClientAfterInitialSync \/ ClientLoopSync \/ ClientLoopSleep
    \/ ClientAfterLoopSync \/ ClientLoopExit
    \/ NetworkAfterInitialSync \/ NetworkLoopSync \/ NetworkLoopSleep
    \/ NetworkAfterLoopSync \/ NetworkLoopExit

SpecRun == RunInit /\ [][RunNext]_vars

---------------------------------------------------------------------------
(* Properties of a run, under SpecRun *)

\* local time minus reference time, scaled
ClockError == LocalTime(L_base, R_base, now) - now * rhoInv

\* The share of the budget the interval's safety factor leaves unused: 0.8 in
\* ClockClient (client.py:146), 2 in Client (network.py:83).
SafetyMargin == IF variant = "client" THEN epsilon_max \div 5 ELSE epsilon_max \div 2

\* C3 as stated: once a synchronisation has succeeded, and while every
\* attempt succeeds with one-way delays within the relay's bounds, local time
\* is never further from reference time than epsilon_max plus the safety margin.
C3_ErrorWithinBudget ==
    (h.successes >= 1 /\ h.failures = 0 /\ net.kind # "silent")
        => Abs(ClockError) <= (epsilon_max + SafetyMargin) * rhoInv

\* C4: an attempt that fails by a refused connection or a malformed response
\* returns failure and leaves the anchor pair as it was when the attempt began.
C4_FailureLeavesClock ==
    (pc = "returned" /\ h.outcome \in {"refused", "malformed"})
        => /\ sync_result = "fail"
           /\ R_base = h.pre_R
           /\ L_base = h.pre_L

\* C4 witness: a malformed response has been received by a client whose clock
\* an earlier synchronisation had rebased, and the call has returned.
C4_Witness ==
    /\ pc = "returned" /\ h.outcome = "malformed" /\ sync_result = "fail"
    /\ h.successes >= 1 /\ now > R_base

\* the scheduler's own clock: local time for ClockClient, time.monotonic() for Client
SchedulerClock == IF variant = "client" THEN LocalTime(L_base, R_base, now) ELSE now
SchedulerInterval == IF variant = "client" THEN sync_interval * rhoInv ELSE sync_interval

\* C5 as stated: a failed attempt does not stop the scheduler (it ends only
\* when the duration is over), and the attempt after n failed ones fires when
\* n + 1 intervals have passed since the last successful synchronisation: at
\* the first check of the schedule at or after that instant.
C5_NextAttemptFromLastSuccess ==
    /\ pc = "done" => now - real_start >= duration
    /\ (pc = "request" /\ caller = "loop" /\ h.has_anchor /\ h.fails_since >= 1)
          => LET due == h.anchor + (h.fails_since + 1) * SchedulerInterval
             IN  /\ SchedulerClock >= due
                 /\ h.has_prev => h.prev < due

\* C6: a successful synchronisation sets the local clock to exactly
\* server_time + (t_recv - t_send) / 2, t_send and t_recv being the reference
\* clock when the request left and when the response arrived.
C6_RebaseToEstimate ==
    (pc = "returned" /\ sync_result = "ok")
        => /\ 2 * L_base = (2 * h.srv + (h.recv_at - h.sent_at)) * rhoInv
           /\ 2 * LocalTime(L_base, R_base, now)
                  = (2 * h.srv + (h.recv_at - h.sent_at)) * rhoInv

\* C6 witness: a synchronisation with unequal one-way delays has succeeded.
C6_Witness ==
    /\ pc = "returned" /\ sync_result = "ok"
    /\ h.srv - h.sent_at # h.recv_at - h.srv

\* the longest an attempt may stay in recv
AttemptLimit == Second

\* C7 as stated: an attempt returns within a bounded time of its start, also
\* when the relay accepts the connection and never answers.
C7_AttemptReturns == pc = "recv" => now - T0 <= AttemptLimit

\* C9 as stated: after every synchronisation of the adaptive client, the
\* interval the scheduler waits next is no longer than the one
\* calculate_sync_interval yields for the round trip measured last.
C9_AppliedIntervalWithinComputed ==
    (variant = "client" /\ pc = "loop")
        => sync_interval <= ClientCalcSyncInterval(rhoSign, rhoInv, epsilon_max,
                                                   duration, measured_rtt)

Scenario10 == rhoSign = 0 /\ epsilon_max = Second /\ duration = 10 * Second

\* C10 as stated: with rho = 0, epsilon_max = 1 s and a duration of 10 s the
\* interval equals the duration and the run, when its attempts succeed, ends
\* with exactly one synchronisation performed.
C10_OneSyncWholeRun ==
    (Scenario10 /\ pc \in {"loop", "done"})
        => /\ sync_interval = duration
           /\ (pc = "done" /\ h.failures = 0) => h.successes = 1

\* C10 amended: in that scenario ClockClient computes the duration as its
\* interval and calls request_time_sync exactly once in the run, at its start;
\* Client computes its fixed 5 s and calls it exactly twice.  When no attempt
\* fails, that many synchronisations are performed.
C10_OneSyncClientTwoNetwork ==
    (Scenario10 /\ pc \in {"loop", "done"})
        => /\ sync_interval = IF variant = "client" THEN duration
                              ELSE NETWORK_NODRIFT_INTERVAL
           /\ sync_count <= IF variant = "client" THEN 1 ELSE 2
           /\ pc = "done" => sync_count = IF variant = "client" THEN 1 ELSE 2
           /\ (pc = "done" /\ h.failures = 0)
                 => h.successes = IF variant = "client" THEN 1 ELSE 2

\* C10 witness: a run of ClockClient in that scenario has ended, its one
\* synchronisation performed.
C10_Witness ==
    /\ Scenario10 /\ variant = "client" /\ pc = "done"
    /\ h.successes = 1 /\ now - real_start >= duration


\* a relay that adds no delay, a clock that does not drift
IdealNetwork == one_way = NoDelay /\ rhoSign = 0

\* C18: with zero network delay and zero drift the local clock equals the
\* reference time from the first successful synchronisation on, whatever
\* number of further synchronisations follow.
C18_IdealSyncConverges ==
    (IdealNetwork /\ h.successes >= 1) => LocalTime(L_base, R_base, now) = now * rhoInv

\* C18 witness: a second synchronisation has succeeded on the ideal network,
\* some time after the first.
C18_Witness ==
    /\ IdealNetwork /\ h.successes >= 2
    /\ pc = "returned" /\ sync_result = "ok" /\ now > real_start

\* the bounds of the delays the relay draws from
LinkMin == CHOOSE d \in one_way : \A e \in one_way : d <= e
LinkMax == CHOOSE d \in one_way : \A e \in one_way : d >= e

\* C19: with both one-way delays drawn from [d_min, d_max], half the measured
\* round trip lies in [d_min, d_max] and the estimate the rebase applies is
\* within d_max - d_min of the reference time.
C19_RttAndEstimateWithinDelays ==
    (pc = "returned" /\ sync_result = "ok")
        => /\ 2 * LinkMin <= T1 - T0
           /\ T1 - T0 <= 2 * LinkMax
           /\ variant = "client" => measured_rtt = T1 - T0
           /\ Abs(L_base - now * rhoInv) <= (LinkMax - LinkMin) * rhoInv

\* C19 witness: a synchronisation whose two one-way delays differed has
\* succeeded, and its estimate is off the reference time.
C19_Witness ==
    /\ pc = "returned" /\ sync_result = "ok" /\ LinkMin < LinkMax
    /\ L_base # now * rhoInv

---------------------------------------------------------------------------
(* The time authority: run_time_server (time_server.py:10-54): SpecServer. *)
(* The peers are the environment: a peer connects, and sends a payload at  *)
(* once, later, or never.  The server thread is scheduled fairly; nothing  *)
(* obliges a peer to send.                                                 *)

\* time_server.py:13  max_attempts = 5
max_attempts == 5
\* time_server.py:25  time.sleep(0.5)
BIND_PAUSE == Second \div 2
\* what bind or listen may raise: the address in use, or any other OSError
BindErrors == {"EADDRINUSE", "EACCES"}
\* what a peer may have sent when recv returns: a time request, a JSON object
\* of another type, bytes that are not JSON, JSON that is not an object, or
\* nothing before it closed (recv returns b'')
Payloads == {"time_req", "unknown_type", "malformed", "non_object", "eof"}

ServerInit ==
    /\ variant = "client"
    /\ rhoSign = 0
    /\ rhoInv = 2
    /\ epsilon_max = Second
    /\ duration = Second
    /\ one_way = OneWayDelays
    /\ measured_rtt = NoRtt
    /\ sync_interval = NoInterval
    /\ pc = "server"
    /\ ClockConstructed(0)
    /\ RunNotStarted
    /\ srv_pc = "bind"
    /\ attempt = 1
    /\ bound = FALSE
    /\ backlog = << >>
    /\ conns = [c \in Conns |-> NoConn]
    /\ conn = 0
    /\ ThreadsNotStarted

\* time_server.py:16-21  socket, bind and listen succeed: break
BindOk ==
    /\ srv_pc = "bind"
    /\ bound' = TRUE
    /\ srv_pc' = "accept"
    /\ UNCHANGED <<clientVars, now, attempt, backlog, conns, conn>>

\* a retry whatever the number of attempts made
MayRetryAlways(err, att) == err = "EADDRINUSE"

\* time_server.py:23  e.errno == errno.EADDRINUSE and attempt < max_attempts
MayRetry(err, att) == err = "EADDRINUSE" /\ att < max_attempts

\* time_server.py:22-29  bind raises OSError: retry after a pause, or re-raise
BindFails ==
    /\ srv_pc = "bind"
    /\ \E err \in BindErrors :
          srv_pc' = IF MayRetry(err, attempt) THEN "pause" ELSE "fatal"
    /\ UNCHANGED <<clientVars, now, attempt, bound, backlog, conns, conn>>

\* time_server.py:25-26, 14  time.sleep(0.5), continue: the next attempt of
\* the for loop, which falls through to the accept loop when the range is used up
BindPause ==
    /\ srv_pc = "pause"
    /\ now' = now + BIND_PAUSE
    /\ attempt' = attempt + 1
    /\ srv_pc' = IF attempt + 1 <= max_attempts THEN "bind" ELSE "accept"
    /\ UNCHANGED <<clientVars, bound, backlog, conns, conn>>

\* the connections made so far
Made == {c \in Conns : conns[c].state # "none"}

\* a peer connects to the listening socket; it has sent `sent` when recv looks
Connect ==
    /\ bound
    /\ srv_pc \in {"accept", "recv"}
    /\ Cardinality(Made) < MaxConns
    /\ LET c == Cardinality(Made) + 1
       IN  /\ \E sent \in Payloads \cup {"nothing"} :
                 conns' = [conns EXCEPT ![c] = [NoConn EXCEPT !.state = "queued",
                                                              !.payload = sent,
                                                              !.peer_open = sent # "eof"]]
           /\ backlog' = Append(backlog, c)
    /\ now' = now + Ms
    /\ UNCHANGED <<clientVars, srv_pc, attempt, bound, conn>>

\* a peer that had sent nothing sends, or closes
PeerSends ==
    /\ \E c \in Conns, sent \in Payloads :
          /\ conns[c].state \in {"queued", "accepted"}
          /\ conns[c].payload = "nothing"
          /\ conns' = [conns EXCEPT ![c].payload = sent, ![c].peer_open = sent # "eof"]
    /\ UNCHANGED <<clientVars, now, srv_pc, attempt, bound, backlog, conn>>

\* a peer that has sent its request closes before the response
PeerLeaves ==
    /\ \E c \in Conns :
          /\ conns[c].state \in {"queued", "accepted"}
          /\ conns[c].payload = "time_req"
          /\ conns[c].peer_open
          /\ conns' = [conns EXCEPT ![c].peer_open = FALSE]
    /\ UNCHANGED <<clientVars, now, srv_pc, attempt, bound, backlog, conn>>

\* time_server.py:32  conn, addr = server_socket.accept()
Accept ==
    /\ srv_pc = "accept"
    /\ bound
    /\ backlog # << >>
    /\ conn' = Head(backlog)
    /\ backlog' = Tail(backlog)
    /\ conns' = [conns EXCEPT ![Head(backlog)].state = "accepted"]
    /\ srv_pc' = "recv"
    /\ UNCHANGED <<clientVars, now, attempt, bound>>

\* time_server.py:38-43  json.loads(data.decode()) returns
Decodes(payload) == payload # "malformed"
\* time_server.py:45  message.get exists: the JSON value is an object
IsObject(payload) == payload \in {"time_req", "unknown_type"}

\* a server that answers whatever it decoded
RecognizedAnything(payload) == TRUE

\* time_server.py:45  message.get("type") == "time_req"
Recognized(payload) == payload = "time_req"

\* time_server.py:33-54  recv returns; the payload is handled; conn.close().
\* responses counts the time_resp messages passed to sendall, which raises,
\* and is caught, when the peer has gone.
Handle ==
    /\ srv_pc = "recv"
    /\ conns[conn].payload # "nothing"
    /\ LET payload == conns[conn].payload
           seen == [conns[conn] EXCEPT !.read = TRUE, !.handled_at = now]
       IN  IF payload = "eof" \/ ~Decodes(payload)
           THEN /\ conns' = [conns EXCEPT ![conn] = [seen EXCEPT !.state = "closed"]]
                /\ srv_pc' = "accept"
                /\ conn' = 0
                /\ UNCHANGED bound
           ELSE IF ~IsObject(payload)
           THEN \* AttributeError at message.get, caught nowhere
                /\ conns' = [conns EXCEPT ![conn] = seen]
                /\ srv_pc' = "crashed"
                /\ bound' = FALSE
                /\ UNCHANGED conn
           ELSE /\ conns' = [conns EXCEPT ![conn] =
                       IF Recognized(payload)
                       THEN [seen EXCEPT !.state = "closed", !.responses = @ + 1,
                                         !.resp_time = now,
                                         !.send_failed = ~seen.peer_open]
                       ELSE [seen EXCEPT !.state = "closed"]]
                /\ srv_pc' = "accept"
                /\ conn' = 0
                /\ UNCHANGED bound
    /\ UNCHANGED <<clientVars, now, attempt, backlog>>

ServerNext ==
    \/ BindOk \/ BindFails \/ BindPause
    \/ Connect \/ PeerSends \/ PeerLeaves
    \/ Accept \/ Handle

SpecServer ==
    /\ ServerInit
    /\ [][ServerNext]_vars
    /\ WF_vars(BindOk \/ BindFails \/ BindPause)
    /\ WF_vars(Accept)
    /\ WF_vars(Handle)

---------------------------------------------------------------------------
(* Properties of the time authority, under SpecServer *)

Serving == srv_pc \in {"accept", "recv"}
\* the authority has read a time request from connection c
ReadRequest(c) == conns[c].read /\ conns[c].payload = "time_req"

\* C13 as stated: whatever payload the authority has read from a connection
\* that is not a recognised time request, it has closed that connection and
\* is still serving.
C13_UnrecognisedNotFatal ==
    \A c \in Conns :
        (conns[c].read /\ ~ReadRequest(c))
            => conns[c].state = "closed" /\ Serving

\* a time request is waiting on connection c
Waiting(c) == conns[c].state \in {"queued", "accepted"} /\ conns[c].payload = "time_req"
\* the peer of connection c has given up
Gone(c) == conns[c].state # "none" /\ ~conns[c].peer_open
\* the authority has answered connection c
Answered(c) == conns[c].state = "closed" /\ conns[c].responses = 1

\* C14 as stated: while the authority is up, a time request waiting on a
\* connection is answered in the end, unless its peer gives up, whatever the
\* other connections do.
C14_StallDoesNotBlock ==
    ([](srv_pc # "crashed")) => \A c \in Conns : Waiting(c) ~> (Answered(c) \/ Gone(c))

C20_BoundedBindRetry ==
    /\ attempt <= max_attempts
    /\ srv_pc = "pause" => attempt < max_attempts
    /\ srv_pc = "bind" => now = (attempt - 1) * BIND_PAUSE
    /\ Serving => bound
    /\ srv_pc = "fatal" => ~bound

\* C20 witness: the fifth attempt has failed and the authority has given up.
C20_Witness == srv_pc = "fatal" /\ attempt = max_attempts /\ now = 4 * BIND_PAUSE

---------------------------------------------------------------------------
(* The threads of a client process from start to exit: SpecStop.           *)
(* ClockClient.run with its logging thread and its periodic flusher        *)
(* (client.py:154-335), and Client.run with its logging thread and its     *)
(* sync thread (network.py:133-207).  Each action is one statement, or one *)
(* acquisition of a lock, of one thread.  A synchronisation is reduced to  *)
(* its call, and its return or the lack of it.  The duration expires, and  *)
(* an interrupt signal arrives, when the environment decides.  The sleeps  *)
(* of the threads (0.05 s, 0.5 s) are shorter than the timeouts of the     *)
(* joins that wait for them (2 s, 1 s): a join returns when its thread has *)
(* ended.  The threads are scheduled fairly.                               *)

\* samples modelled per run
MaxSamples == 2

\* the thread that synchronises: ClockClient.run itself; Client.sync_thread
Scheduler == IF variant = "client" THEN "main" ELSE "sync"

Goto(t, position) == at' = [at EXCEPT ![t] = position]

StopInit ==
    /\ variant \in Variants
    /\ rhoSign = 0
    /\ rhoInv = 2
    /\ epsilon_max = Second
    /\ duration = Second
    /\ one_way = OneWayDelays
    /\ measured_rtt = NoRtt
    /\ sync_interval = NoInterval
    /\ pc = "threads"
    /\ ClockConstructed(0)
    /\ RunNotStarted
    /\ ServerNotStarted
    /\ ThreadsNotStarted

\* client.py:273-293  the logging thread and the flusher are started, the
\* start time is taken, the initial synchronisation is next
StartThreads ==
    /\ variant = "client"
    /\ at["main"] = "run"
    /\ at' = [at EXCEPT !["main"] = "initial", !["logger"] = "wait", !["flusher"] = "top"]
    /\ UNCHANGED <<schedulerVars, stop_event, running, expired, interrupted, log_buffer,
                   entries, csv_rows, csv_open, csv_lock, buffer_lock, taken>>

\* network.py:192-201, 135-141, 161  both threads are started, the logging
\* thread opens the sink, the main thread waits in join
NetStartThreads ==
    /\ variant = "network"
    /\ at["main"] = "run"
    /\ at' = [at EXCEPT !["main"] = "join_log", !["logger"] = "loop", !["sync"] = "initial"]
    /\ csv_open' = TRUE
    /\ UNCHANGED <<schedulerVars, stop_event, running, expired, interrupted, log_buffer,
                   entries, csv_rows, csv_lock, buffer_lock, taken>>

\* the reference clock passes the start time plus the duration
Expire ==
    /\ at["main"] # "run"
    /\ ~expired
    /\ expired' = TRUE
    /\ UNCHANGED <<schedulerVars, at, stop_event, running, interrupted, log_buffer,
                   entries, csv_rows, csv_open, csv_lock, buffer_lock, taken>>

\* client.py:293, 304-311  request_time_sync is called: the initial one, or
\* one the loop finds due before the duration is over;
\* network.py:162, 168-178
SyncCall ==
    /\ \/ at[Scheduler] = "initial"
       \/ /\ at[Scheduler] = "loop"
          /\ ~expired
          /\ variant = "network" => running
    /\ Goto(Scheduler, "recv")
    /\ UNCHANGED <<schedulerVars, stop_event, running, expired, interrupted, log_buffer,
                   entries, csv_rows, csv_open, csv_lock, buffer_lock, taken>>

\* client.py:78-107, network.py:108-131  recv returns, or connect has raised:
\* request_time_sync returns
RecvReturns ==
    /\ at[Scheduler] = "recv"
    /\ Goto(Scheduler, "loop")
    /\ UNCHANGED <<schedulerVars, stop_event, running, expired, interrupted, log_buffer,
                   entries, csv_rows, csv_open, csv_lock, buffer_lock, taken>>

\* client.py:78, network.py:108  the relay holds the connection and sends
\* nothing: recv, on a socket with no timeout, does not return
RecvSilent ==
    /\ at[Scheduler] = "recv"
    /\ Goto(Scheduler, "blocked")
    /\ UNCHANGED <<schedulerVars, stop_event, running, expired, interrupted, log_buffer,
                   entries, csv_rows, csv_open, csv_lock, buffer_lock, taken>>

\* client.py:304, 322-323  the loop ends with the duration; stop_event.set()
LoopExit ==
    /\ variant = "client"
    /\ at["main"] = "loop"
    /\ expired
    /\ stop_event' = TRUE
    /\ Goto("main", "join_logger")
    /\ UNCHANGED <<schedulerVars, running, expired, interrupted, log_buffer,
                   entries, csv_rows, csv_open, csv_lock, buffer_lock, taken>>

\* client.py:324  logger.join(timeout=2)
JoinLogger ==
    /\ at["main"] = "join_logger"
    /\ at["logger"] = "done"
    /\ Goto("main", "join_flusher")
    /\ UNCHANGED <<schedulerVars, stop_event, running, expired, interrupted, log_buffer,
                   entries, csv_rows, csv_open, csv_lock, buffer_lock, taken>>

\* client.py:325, 328  flusher.join(timeout=1); flush_logs() is called
JoinFlusher ==
    /\ at["main"] = "join_flusher"
    /\ at["flusher"] = "done"
    /\ Goto("main", "f_begin")
    /\ UNCHANGED <<schedulerVars, stop_event, running, expired, interrupted, log_buffer,
                   entries, csv_rows, csv_open, csv_lock, buffer_lock, taken>>

\* where flush_logs returns to: the flusher's loop test, or the close in run
AfterFlush(t) == IF t = "flusher" THEN "top" ELSE "close"

\* client.py:165  flush_logs: with self.buffer_lock
FlushAcquireBuffer(t) ==
    /\ at[t] = "f_begin"
    /\ buffer_lock = "free"
    /\ buffer_lock' = t
    /\ Goto(t, "f_buffer")
    /\ UNCHANGED <<schedulerVars, stop_event, running, expired, interrupted, log_buffer,
                   entries, csv_rows, csv_open, csv_lock, taken>>

\* a flush_logs that copies the buffer and does not clear it
FlushTakeKeeps(t) ==
    /\ at[t] = "f_buffer"
    /\ buffer_lock' = "free"
    /\ IF log_buffer = << >>
       THEN /\ Goto(t, AfterFlush(t))
            /\ UNCHANGED <<log_buffer, entries>>
       ELSE /\ entries' = [entries EXCEPT ![t] = log_buffer]
            /\ UNCHANGED log_buffer
            /\ Goto(t, "f_taken")
    /\ UNCHANGED <<schedulerVars, stop_event, running, expired, interrupted,
                   csv_rows, csv_open, csv_lock, taken>>

\* a flush_logs that keeps buffer_lock while it writes: csv_lock is taken
\* inside buffer_lock
FlushTakeHoldsBuffer(t) ==
    /\ at[t] = "f_buffer"
    /\ IF log_buffer = << >>
       THEN /\ Goto(t, AfterFlush(t))
            /\ buffer_lock' = "free"
            /\ UNCHANGED <<log_buffer, entries>>
       ELSE /\ entries' = [entries EXCEPT ![t] = log_buffer]
            /\ log_buffer' = << >>
            /\ Goto(t, "f_taken")
            /\ UNCHANGED buffer_lock
    /\ UNCHANGED <<schedulerVars, stop_event, running, expired, interrupted,
                   csv_rows, csv_open, csv_lock, taken>>

\* client.py:166-170  return on an empty buffer; else copy and clear it
FlushTake(t) ==
    /\ at[t] = "f_buffer"
    /\ buffer_lock' = "free"
    /\ IF log_buffer = << >>
       THEN /\ Goto(t, AfterFlush(t))
            /\ UNCHANGED <<log_buffer, entries>>
       ELSE /\ entries' = [entries EXCEPT ![t] = log_buffer]
            /\ log_buffer' = << >>
            /\ Goto(t, "f_taken")
    /\ UNCHANGED <<schedulerVars, stop_event, running, expired, interrupted,
                   csv_rows, csv_open, csv_lock, taken>>

\* client.py:173  with self.csv_lock
FlushAcquireCsv(t) ==
    /\ at[t] = "f_taken"
    /\ csv_lock = "free"
    /\ csv_lock' = t
    /\ Goto(t, "f_csv")
    /\ UNCHANGED <<schedulerVars, stop_event, running, expired, interrupted, log_buffer,
                   entries, csv_rows, csv_open, buffer_lock, taken>>

\* client.py:174-187  the rows are written and flushed; writerow on a closed
\* file raises and the thread ends with its entries
FlushWrite(t) ==
    /\ at[t] = "f_csv"
    /\ csv_lock' = "free"
    /\ IF csv_open
       THEN /\ csv_rows' = csv_rows \o entries[t]
            /\ entries' = [entries EXCEPT ![t] = << >>]
            /\ Goto(t, AfterFlush(t))
       ELSE /\ Goto(t, "raised")
            /\ UNCHANGED <<csv_rows, entries>>
    /\ UNCHANGED <<schedulerVars, stop_event, running, expired, interrupted, log_buffer,
                   csv_open, buffer_lock, taken>>

\* client.py:329-335  csv_f.close(); run returns and the process exits
Close ==
    /\ at["main"] = "close"
    /\ csv_open' = FALSE
    /\ Goto("main", "exited")
    /\ UNCHANGED <<schedulerVars, stop_event, running, expired, interrupted, log_buffer,
                   entries, csv_rows, csv_lock, buffer_lock, taken>>

\* client.py:280  while not stop_event.is_set(), then time.sleep(0.5)
FlusherTop ==
    /\ at["flusher"] = "top"
    /\ Goto("flusher", IF stop_event THEN "done" ELSE "sleep")
    /\ UNCHANGED <<schedulerVars, stop_event, running, expired, interrupted, log_buffer,
                   entries, csv_rows, csv_open, csv_lock, buffer_lock, taken>>

\* client.py:281-282  the sleep is over; flush_logs() is called
FlusherWake ==
    /\ at["flusher"] = "sleep"
    /\ Goto("flusher", "f_begin")
    /\ UNCHANGED <<schedulerVars, stop_event, running, expired, interrupted, log_buffer,
                   entries, csv_rows, csv_open, csv_lock, buffer_lock, taken>>

\* client.py:210, 228-232  stop_event.is_set(): the logging thread ends
LoggerStops ==
    /\ at["logger"] = "wait"
    /\ stop_event
    /\ Goto("logger", "done")
    /\ UNCHANGED <<schedulerVars, stop_event, running, expired, interrupted, log_buffer,
                   entries, csv_rows, csv_open, csv_lock, buffer_lock, taken>>

\* client.py:215-235  the next second is reached and stop_event is not set:
\* log_time() is called
LoggerDue ==
    /\ at["logger"] = "wait"
    /\ ~stop_event
    /\ taken < MaxSamples
    /\ Goto("logger", "log")
    /\ UNCHANGED <<schedulerVars, stop_event, running, expired, interrupted, log_buffer,
                   entries, csv_rows, csv_open, csv_lock, buffer_lock, taken>>

\* client.py:156-160  log_time: the sample is taken; with self.buffer_lock
LogAcquire ==
    /\ at["logger"] = "log"
    /\ buffer_lock = "free"
    /\ buffer_lock' = "logger"
    /\ Goto("logger", "log_buffer")
    /\ UNCHANGED <<schedulerVars, stop_event, running, expired, interrupted, log_buffer,
                   entries, csv_rows, csv_open, csv_lock, taken>>

\* client.py:161, 236  the sample is appended to the buffer
LogAppend ==
    /\ at["logger"] = "log_buffer"
    /\ log_buffer' = Append(log_buffer, taken + 1)
    /\ taken' = taken + 1
    /\ buffer_lock' = "free"
    /\ Goto("logger", "logged")
    /\ UNCHANGED <<schedulerVars, stop_event, running, expired, interrupted,
                   entries, csv_rows, csv_open, csv_lock>>

\* client.py:240-244  the thread is behind and stop_event is not set:
\* log_time() again
LoggerCatchUp ==
    /\ at["logger"] = "logged"
    /\ ~stop_event
    /\ taken < MaxSamples
    /\ Goto("logger", "log")
    /\ UNCHANGED <<schedulerVars, stop_event, running, expired, interrupted, log_buffer,
                   entries, csv_rows, csv_open, csv_lock, buffer_lock, taken>>

\* client.py:247  the inline drain: with self.csv_lock
DrainAcquireCsv ==
    /\ at["logger"] = "logged"
    /\ csv_lock = "free"
    /\ csv_lock' = "logger"
    /\ Goto("logger", "d_csv")
    /\ UNCHANGED <<schedulerVars, stop_event, running, expired, interrupted, log_buffer,
                   entries, csv_rows, csv_open, buffer_lock, taken>>

\* client.py:249  with self.buffer_lock, inside csv_lock
DrainAcquireBuffer ==
    /\ at["logger"] = "d_csv"
    /\ buffer_lock = "free"
    /\ buffer_lock' = "logger"
    /\ Goto("logger", "d_buffer")
    /\ UNCHANGED <<schedulerVars, stop_event, running, expired, interrupted, log_buffer,
                   entries, csv_rows, csv_open, csv_lock, taken>>

\* client.py:250-251  the buffer is copied and cleared
DrainTake ==
    /\ at["logger"] = "d_buffer"
    /\ entries' = [entries EXCEPT !["logger"] = log_buffer]
    /\ log_buffer' = << >>
    /\ buffer_lock' = "free"
    /\ Goto("logger", "d_write")
    /\ UNCHANGED <<schedulerVars, stop_event, running, expired, interrupted,
                   csv_rows, csv_open, csv_lock, taken>>

\* client.py:253-266  the rows are written and flushed; back to the loop test
DrainWrite ==
    /\ at["logger"] = "d_write"
    /\ csv_lock' = "free"
    /\ IF csv_open
       THEN /\ csv_rows' = csv_rows \o entries["logger"]
            /\ entries' = [entries EXCEPT !["logger"] = << >>]
            /\ Goto("logger", "wait")
       ELSE /\ Goto("logger", "raised")
            /\ UNCHANGED <<csv_rows, entries>>
    /\ UNCHANGED <<schedulerVars, stop_event, running, expired, interrupted, log_buffer,
                   csv_open, buffer_lock, taken>>

\* a thread the process drops when it exits
Dropped(position) == IF position \in {"none", "done", "raised"} THEN position ELSE "killed"

\* client.py:268-335, 346  KeyboardInterrupt is raised in the main thread,
\* nothing in run or main catches it: the process exits and its daemon
\* threads end where they are
Interrupt ==
    /\ variant = "client"
    /\ at["main"] \notin {"run", "exited"}
    /\ interrupted' = TRUE
    /\ at' = [t \in Threads |-> IF t = "main" THEN "exited" ELSE Dropped(at[t])]
    /\ UNCHANGED <<schedulerVars, stop_event, running, expired, log_buffer,
                   entries, csv_rows, csv_open, csv_lock, buffer_lock, taken>>

\* network.py:143-154  a second has passed: the row is written and flushed
NetLog ==
    /\ variant = "network"
    /\ at["logger"] = "loop"
    /\ running
    /\ ~expired
    /\ taken < MaxSamples
    /\ csv_rows' = Append(csv_rows, taken + 1)
    /\ taken' = taken + 1
    /\ UNCHANGED <<schedulerVars, at, stop_event, running, expired, interrupted,
                   log_buffer, entries, csv_open, csv_lock, buffer_lock>>

\* network.py:143, 135, 156  the loop ends, the with block closes the sink
NetLogExit ==
    /\ variant = "network"
    /\ at["logger"] = "loop"
    /\ ~running \/ expired
    /\ csv_open' = FALSE
    /\ Goto("logger", "done")
    /\ UNCHANGED <<schedulerVars, stop_event, running, expired, interrupted, log_buffer,
                   entries, csv_rows, csv_lock, buffer_lock, taken>>

\* network.py:168-173, 184  self.running is false, or the duration is over
NetSyncExit ==
    /\ variant = "network"
    /\ at["sync"] = "loop"
    /\ ~running \/ expired
    /\ Goto("sync", "done")
    /\ UNCHANGED <<schedulerVars, stop_event, running, expired, interrupted, log_buffer,
                   entries, csv_rows, csv_open, csv_lock, buffer_lock, taken>>

\* network.py:201  log_thread.join()
NetJoinLog ==
    /\ at["main"] = "join_log"
    /\ at["logger"] = "done"
    /\ Goto("main", "join_sync")
    /\ UNCHANGED <<schedulerVars, stop_event, running, expired, interrupted, log_buffer,
                   entries, csv_rows, csv_open, csv_lock, buffer_lock, taken>>

\* network.py:202, 207  sync_t.join(); run returns
NetJoinSync ==
    /\ at["main"] = "join_sync"
    /\ at["sync"] = "done"
    /\ Goto("main", "finished")
    /\ UNCHANGED <<schedulerVars, stop_event, running, expired, interrupted, log_buffer,
                   entries, csv_rows, csv_open, csv_lock, buffer_lock, taken>>

\* network.py:203-207  KeyboardInterrupt in a join: self.running = False
NetInterrupt ==
    /\ variant = "network"
    /\ at["main"] \in {"join_log", "join_sync"}
    /\ interrupted' = TRUE
    /\ running' = FALSE
    /\ Goto("main", "finished")
    /\ UNCHANGED <<schedulerVars, stop_event, expired, log_buffer,
                   entries, csv_rows, csv_open, csv_lock, buffer_lock, taken>>

\* network.py:192-197  the threads are not daemons: the process exits when
\* run has returned and both have ended
NetExit ==
    /\ at["main"] = "finished"
    /\ at["logger"] = "done"
    /\ at["sync"] = "done"
    /\ Goto("main", "exited")
    /\ UNCHANGED <<schedulerVars, stop_event, running, expired, interrupted, log_buffer,
                   entries, csv_rows, csv_open, csv_lock, buffer_lock, taken>>

MainNext ==
    \/ StartThreads \/ LoopExit \/ JoinLogger \/ JoinFlusher
    \/ FlushAcquireBuffer("main") \/ FlushTake("main")
    \/ FlushAcquireCsv("main") \/ FlushWrite("main")
    \/ Close
    \/ NetStartThreads \/ NetJoinLog \/ NetJoinSync \/ NetExit

FlusherNext ==
    \/ FlusherTop \/ FlusherWake
    \/ FlushAcquireBuffer("flusher") \/ FlushTake("flusher")
    \/ FlushAcquireCsv("flusher") \/ FlushWrite("flusher")

LoggerNext ==
    \/ LoggerStops \/ LoggerDue \/ LogAcquire \/ LogAppend \/ LoggerCatchUp
    \/ DrainAcquireCsv \/ DrainAcquireBuffer \/ DrainTake \/ DrainWrite
    \/ NetLog \/ NetLogExit

SchedulerNext == SyncCall \/ RecvReturns \/ NetSyncExit

StopNext ==
    \/ MainNext \/ FlusherNext \/ LoggerNext \/ SchedulerNext
    \/ RecvSilent \/ Expire \/ Interrupt \/ NetInterrupt

SpecStop ==
    /\ StopInit
    /\ [][StopNext]_vars
    /\ WF_vars(MainNext)
    /\ WF_vars(FlusherNext)
    /\ WF_vars(LoggerNext)
    /\ WF_vars(SchedulerNext)

---------------------------------------------------------------------------
(* Properties of the stop path, under SpecStop *)

\* every sample taken is a row of the sink
AllWritten == \A k \in 1 .. taken : \E i \in DOMAIN csv_rows : csv_rows[i] = k

\* the threads the variant runs beside the main thread
Workers == IF variant = "client" THEN {"logger", "flusher"} ELSE {"logger", "sync"}

\* the process has exited after a graceful stop: its threads have ended by
\* themselves, every sample is in the sink, the sink is closed
GracefulExit ==
    /\ at["main"] = "exited"
    /\ \A t \in Workers : at[t] = "done"
    /\ AllWritten
    /\ ~csv_open

\* C11 as stated: when the duration expires (and no interrupt arrives) the
\* scheduler and the sampler end, and the process exits with every sample
\* written to the sink and the sink closed.
C11_ExpiryStopsAndFlushes ==
    ([]~interrupted) => (expired ~> GracefulExit)

\* C12 as stated requires, of a process that exits after an interrupt signal,
\* at least that every sample taken has been written to the sink.
C12_InterruptFlushesSamples ==
    (interrupted /\ at["main"] = "exited") => AllWritten

\* When every synchronisation returns, the expiry of the duration does lead
\* to the graceful exit.
ExpiryStopsWhenSyncReturns ==
    ([](~interrupted /\ at[Scheduler] # "blocked")) => (expired ~> GracefulExit)

\* The interrupt of Client (network.py) leads to the graceful exit when no
\* synchronisation is blocked.
NetInterruptStopsGracefully ==
    (variant = "network" /\ interrupted /\ at["main"] = "exited") => GracefulExit

---------------------------------------------------------------------------
(* Properties of the log buffer and the sink, under SpecStop *)

\* the number of times sample k occurs in a sequence
Count(seq, k) == Cardinality({i \in DOMAIN seq : seq[i] = k})

\* the copies of sample k the process holds: in the buffer, in a thread's
\* entries, in the sink
Copies(k) ==
    Count(log_buffer, k) + Count(entries["main"], k) + Count(entries["logger"], k)
        + Count(entries["flusher"], k) + Count(csv_rows, k)

InOrder(rows) == \A i, j \in DOMAIN rows : i < j => rows[i] < rows[j]

\* C22 as stated: under every interleaving of the inline drain and the
\* flusher, the sink never holds a sample written after one taken later.
C22_WrittenInOrder == InOrder(csv_rows)

\* the steps of a thread
ThreadNext(t) ==
    CASE t = "main" -> MainNext
      [] t = "logger" -> LoggerNext
      [] t = "flusher" -> FlusherNext
      [] OTHER -> FALSE

\* the threads that run: not ended, not dropped at the exit of the process
Live(t) == at[t] \notin {"none", "done", "raised", "killed", "exited"}

\* thread t stands before a with block whose lock another thread holds
WaitsForBuffer(t) ==
    Live(t) /\ at[t] \in {"f_begin", "log", "d_csv"} /\ buffer_lock \notin {"free", t}
WaitsForCsv(t) ==
    Live(t) /\ at[t] \in {"f_taken", "logged"} /\ csv_lock \notin {"free", t}

\* C23: whenever a thread waits for buffer_lock its holder can take the step
\* that releases it; whenever a thread waits for csv_lock its holder can take
\* a step, or itself waits for buffer_lock, whose holder can.
C23_NoDeadlock ==
    \A t \in Threads :
        /\ WaitsForBuffer(t) => ENABLED ThreadNext(buffer_lock)
        /\ WaitsForCsv(t)
              => \/ ENABLED ThreadNext(csv_lock)
                 \/ WaitsForBuffer(csv_lock) /\ ENABLED ThreadNext(buffer_lock)

\* C23 witness: the flusher holds buffer_lock inside flush_logs while the
\* logging thread, holding csv_lock in its drain, waits for buffer_lock.
C23_Witness ==
    /\ buffer_lock = "flusher"
    /\ csv_lock = "logger"
    /\ WaitsForBuffer("logger")

=============================================================================
